---- MODULE Spec2Model ----
(***************************************************************************)
(* Model of the clone verifier of r-che/testing (package clone).           *)
(*                                                                         *)
(* A StructVerifier holds a creator, a cloner, user setter factories and   *)
(* user changers.  Verify() fills an original and a reference record with  *)
(* autoFill, then for every exported field clones the original, changes    *)
(* that field of the clone with autoChange and compares the three records  *)
(* with reflect.DeepEqual.                                                 *)
(*                                                                         *)
(* Records live in a heap of struct instances (structs); slices and maps   *)
(* are references into a heap of backing storage (store), so that sharing  *)
(* of storage between the original and a clone is observable.  Go strings  *)
(* and field names are sequences of character codes.                       *)
(***************************************************************************)
EXTENDS Integers, Sequences, FiniteSets, TLC

\* Largest number of fields of a record type under test.
MaxFields == 2

\* Largest number of calls made on one chain of built-in setters.
MaxChainCalls == 4

\* const initialSeed = 2
initialSeed == 2

\* Character codes: '_', 'a' and 'z' of the field filter, and the letters the
\* field names of the record types under test are built from ('B' as in
\* struct{B bool}, 'u' as in unexported1).
ChUnderscore == 95
ChLowerA == 97
ChLowerZ == 122
ChUpperB == 66
ChLowerU == 117

Nil == 0

----------------------------------------------------------------------------
(* Record types under test *)

\* Field categories: the six the built-in handlers know, bool (used by the
\* tests as the unsupported category) and any (an unexported field of
\* testComplexStruct).
RefTypes == {"ints", "int64s", "strs", "map"}
ExportedTypes == {"int", "int64", "ints", "int64s", "strs", "map", "bool"}

\* The fields a record type may declare at position i: an exported field of
\* any category, or one of the two unexported fields of testComplexStruct
\* (unexported1 bool, _Unexported2 any).
FieldChoices(i) ==
    {[name |-> <<ChUpperB + i - 1>>, type |-> t] : t \in ExportedTypes}
    \cup {[name |-> <<ChLowerU + i - 1>>, type |-> "bool"],
          [name |-> <<ChUnderscore, ChUpperB + i - 1>>, type |-> "any"]}

RECURSIVE TypesOfLen(_)
\* The record types with n fields.
TypesOfLen(n) ==
    IF n = 0 THEN {<<>>}
    ELSE {Append(s, f) : s \in TypesOfLen(n - 1), f \in FieldChoices(n)}

StructTypes == UNION {TypesOfLen(n) : n \in 0..MaxFields}

\* Zero value of a field of type t (a nil slice or map is the address Nil).
ZeroValue(t) ==
    CASE t \in {"int", "int64"} -> 0
      [] t = "bool" -> FALSE
      [] t = "any" -> "nil"
      [] OTHER -> Nil

RECURSIVE ZeroVals(_, _)
\* The zero values of the first n fields of record type ty.
ZeroVals(ty, n) ==
    IF n = 0 THEN <<>> ELSE Append(ZeroVals(ty, n - 1), ZeroValue(ty[n].type))

\* A zero-valued instance of record type ty, as &T{} builds it.
ZeroStruct(ty) == [type |-> ty, vals |-> ZeroVals(ty, Len(ty))]

\* The filter without its test for a lowercase first letter.
UnexportedUnderscoreOnly(name) == name[1] = ChUnderscore

\* if c := name[0]; c == '_' || (c >= 'a' && c <= 'z') { continue }
Unexported(name) ==
    LET c == name[1] IN c = ChUnderscore \/ (c >= ChLowerA /\ c <= ChLowerZ)

----------------------------------------------------------------------------
(* reflect.DeepEqual on the heap *)

\* Two field values of type t: scalars by value; slices and maps are both
\* nil or both non-nil with equal contents.
DeepEqualField(store, t, v, w) ==
    IF t \in RefTypes
    THEN /\ (v = Nil) <=> (w = Nil)
         /\ (v # Nil /\ w # Nil) => (v = w \/ store[v] = store[w])
    ELSE v = w

\* Two pointers to records: the same pointer, or records of the same type
\* with deeply equal fields.  Values of distinct types are never equal.
DeepEqual(structs, store, p, q) ==
    \/ p = q
    \/ /\ structs[p].type = structs[q].type
       /\ \A i \in 1..Len(structs[p].type) :
             DeepEqualField(store, structs[p].type[i].type,
                            structs[p].vals[i], structs[q].vals[i])

----------------------------------------------------------------------------
(* Errors *)

\* The error cases Verify and autoChange return.
ErrSVChange == "Change"
ErrSVCloneOrigEqual == "CloneOrigEqual"
ErrSVCloneOrigNotEqual == "CloneOrigNotEqual"
ErrSVFieldNotFound == "FieldNotFound"
ErrSVOrigChanged == "OrigChanged"
ErrSVOrigFill == "OrigFill"
ErrSVRefFill == "RefFill"
ErrSVRefOrigEqual == "RefOrigEqual"

----------------------------------------------------------------------------
(* Setters *)

RECURSIVE Repeat(_, _)
\* strings.Repeat(s, n)
Repeat(s, n) == IF n <= 0 THEN <<>> ELSE s \o Repeat(s, n - 1)

\* fmt.Sprintf("%c", ('a' - initialSeed) + nStrs % ('z' - 'a'))
BaseChar(nStrs) == (ChLowerA - initialSeed) + (nStrs % (ChLowerZ - ChLowerA))

\* The chain's variables with the string counter started at zero.
EmbInitNoStrs == [intVal |-> 0, i64v |-> 0, nStrs |-> 0]

\* The variables a chain of built-in setters closes over, as EmbSetters()
\* initialises them: var i64v int64; var intVal int; nStrs := int(initialSeed).
EmbInit == [intVal |-> 0, i64v |-> 0, nStrs |-> initialSeed]

RECURSIVE CountUp(_, _)
\* for i := 0; i < l; i++ { s = append(s, n + i) }
CountUp(n, l) == IF l <= 0 THEN <<>> ELSE Append(CountUp(n, l - 1), n + (l - 1))

\* The slice built from the multiplier alone, whatever the counter.
CounterSliceNoCounter(n, mult) == CountUp(1, mult)

\* The counter slice the built-in and the example setters build:
\* l := n * mult, then the loop above.
CounterSlice(n, mult) == CountUp(n, n * mult)

RECURSIVE Copies(_, _)
\* A slice of n elements, each x.
Copies(x, n) == IF n <= 0 THEN <<>> ELSE Append(Copies(x, n - 1), x)

\* for i := 0; i < nStrs; i++ { s = append(s, strings.Repeat(baseChar+"_", nStrs)) }
StringSlice(nStrs) == Copies(Repeat(<<BaseChar(nStrs), ChUnderscore>>, nStrs), nStrs)

\* The map with the values counted from i instead of i+1: the first is 0.
StringMapFromZero(nStrs) ==
    {[k |-> Repeat(<<BaseChar(nStrs), ChUnderscore>>, nStrs + i),
      v |-> (i * 3) \div 2] : i \in 0..(nStrs - 1)}

\* for i := 0; i < nStrs; i++ { m[strings.Repeat(baseChar+"_", nStrs+i)] = (i+1) * 3 / 2 }
\* A map is the set of its entries [k, v]; the keys built here are distinct.
StringMap(nStrs) ==
    {[k |-> Repeat(<<BaseChar(nStrs), ChUnderscore>>, nStrs + i),
      v |-> ((i + 1) * 3) \div 2] : i \in 0..(nStrs - 1)}

\* A setter that declines the field (returns nil).
Declined(env) == [claimed |-> FALSE, val |-> Nil, env |-> env]
Claimed(v, env) == [claimed |-> TRUE, val |-> v, env |-> env]

\* One call of a setter on a field of type t.  env holds what the closures
\* capture: emb, the variables of the built-in chain; u, the counter of each
\* user setter created by its factory; ext, the variables the setters of the
\* tests capture from outside their factory; n, the number of setter calls.
\* The result is the value the setter returns, nil (declined) or not.
\*   emb_*            the six setters of EmbSetters()
\*   intSliceSetter   the example setter for []int
\*   boolSetter       Test_autoChangeFail: always true for bool
\*   exhaustSetter    TestRerFillFail: claims bool once, then nothing
\*   toggleSetter     TestOrigRefEqualFail: alternates false and true
\*   const10Setter    TestOrigChangedFail: []int{10}
Setter(kind, idx, env0, t) ==
    LET env == [env0 EXCEPT !.n = @ + 1] IN
    CASE kind = "emb_int" ->
            IF t # "int" THEN Declined(env)
            ELSE Claimed(env.emb.intVal + 1, [env EXCEPT !.emb.intVal = @ + 1])
      [] kind = "emb_int64" ->
            IF t # "int64" THEN Declined(env)
            ELSE Claimed(env.emb.i64v + 1, [env EXCEPT !.emb.i64v = @ + 1])
      [] kind = "emb_ints" ->
            IF t # "ints" THEN Declined(env)
            ELSE Claimed(CounterSlice(env.emb.intVal + 1, initialSeed),
                         [env EXCEPT !.emb.intVal = @ + 1])
      [] kind = "emb_int64s" ->
            IF t # "int64s" THEN Declined(env)
            ELSE Claimed(CounterSlice(env.emb.i64v + 1, initialSeed),
                         [env EXCEPT !.emb.i64v = @ + 1])
      [] kind = "emb_strs" ->
            IF t # "strs" THEN Declined(env)
            ELSE Claimed(StringSlice(env.emb.nStrs), [env EXCEPT !.emb.nStrs = @ + 1])
      [] kind = "emb_map" ->
            IF t # "map" THEN Declined(env)
            ELSE Claimed(StringMap(env.emb.nStrs), [env EXCEPT !.emb.nStrs = @ + 1])
      [] kind = "intSliceSetter" ->
            IF t # "ints" THEN Declined(env)
            ELSE Claimed(CounterSlice(env.u[idx] + 1, 2), [env EXCEPT !.u[idx] = @ + 1])
      [] kind = "boolSetter" ->
            IF t # "bool" THEN Declined(env) ELSE Claimed(TRUE, env)
      [] kind = "exhaustSetter" ->
            IF env.ext.exhausted THEN Declined(env)
            ELSE IF t = "bool" THEN Claimed(TRUE, [env EXCEPT !.ext.exhausted = TRUE])
            ELSE Declined(env)
      [] kind = "toggleSetter" ->
            IF t # "bool" THEN Declined(env)
            ELSE Claimed(env.ext.val, [env EXCEPT !.ext.val = ~@])
      [] kind = "const10Setter" ->
            IF t # "ints" THEN Declined(env) ELSE Claimed(<<10>>, env)
      [] OTHER -> Declined(env)

\* The chain EmbSetters() returns, in its order.
EmbSetters ==
    <<[kind |-> "emb_int", idx |-> 0], [kind |-> "emb_int64", idx |-> 0],
      [kind |-> "emb_ints", idx |-> 0], [kind |-> "emb_int64s", idx |-> 0],
      [kind |-> "emb_strs", idx |-> 0], [kind |-> "emb_map", idx |-> 0]>>

\* uSetters: one setter per user factory, in registration order.
USetters(setters) == [j \in 1..Len(setters) |-> [kind |-> setters[j], idx |-> j]]

RECURSIVE RunSettersLastWins(_, _, _, _)
\* The setter loop without the goto: every setter is asked and the value of
\* the last one that claims the field stays.
RunSettersLastWins(chain, j, env, t) ==
    IF j > Len(chain) THEN Declined(env)
    ELSE LET r == Setter(chain[j].kind, chain[j].idx, env, t)
             rest == RunSettersLastWins(chain, j + 1, r.env, t)
         IN  IF rest.claimed THEN rest
             ELSE IF r.claimed THEN Claimed(r.val, rest.env) ELSE rest

RECURSIVE RunSetters(_, _, _, _)
\* for _, setter := range chain { if v := setter(f); v != nil { ... goto nextField } }
\* from position j on: the result of the first setter that claims the field.
RunSetters(chain, j, env, t) ==
    IF j > Len(chain) THEN Declined(env)
    ELSE LET r == Setter(chain[j].kind, chain[j].idx, env, t)
         IN  IF r.claimed THEN r ELSE RunSetters(chain, j + 1, r.env, t)

----------------------------------------------------------------------------
(* Changers *)

\* Outcomes of one changer call: it declines (returns false), claims the
\* field (returns true) leaving val and store as given, or aborts (panic).
NotMine(v, store) == [claimed |-> FALSE, panic |-> FALSE, val |-> v, store |-> store]
Changed(v, store) == [claimed |-> TRUE, panic |-> FALSE, val |-> v, store |-> store]
Aborted(v, store) == [claimed |-> FALSE, panic |-> TRUE, val |-> v, store |-> store]

\* The changer doubles the last element of a copy of the slice: the field
\* itself keeps its value.
MultLastOnCopy(a, store, mult) ==
    IF a = Nil \/ Len(store[a]) = 0 THEN Aborted(a, store) ELSE Changed(a, store)

\* The changer with its index off by one: is[len(is)-2] *= mult.
MultBeforeLast(a, store, mult) ==
    IF a = Nil \/ Len(store[a]) < 2 THEN Aborted(a, store)
    ELSE Changed(a, [store EXCEPT ![a][Len(store[a]) - 1] = @ * mult])

\* is[len(is)-1] *= mult on the slice at address a (index out of range on
\* an empty or nil slice).
MultLast(a, store, mult) ==
    IF a = Nil \/ Len(store[a]) = 0 THEN Aborted(a, store)
    ELSE Changed(a, [store EXCEPT ![a][Len(store[a])] = @ * mult])

\* One call of a changer on a field of type t holding v: the set of its
\* possible outcomes (the map changer changes whichever entry the map
\* iteration yields first).
\*   emb_*             the six changers of EmbChangers()
\*   intSliceChanger   the example changer for []int
\*   firstElemChanger  TestOrigChangedFail: is[0] *= 2
\*   noopChanger       TestCloneOrigEqualFail: claims []int, changes nothing
Changer(kind, t, v, store) ==
    CASE kind = "emb_int" ->
            IF t # "int" THEN {NotMine(v, store)} ELSE {Changed(v * initialSeed, store)}
      [] kind = "emb_int64" ->
            IF t # "int64" THEN {NotMine(v, store)} ELSE {Changed(v * initialSeed, store)}
      [] kind = "emb_ints" ->
            IF t # "ints" THEN {NotMine(v, store)} ELSE {MultLast(v, store, initialSeed)}
      [] kind = "emb_int64s" ->
            IF t # "int64s" THEN {NotMine(v, store)} ELSE {MultLast(v, store, initialSeed)}
      [] kind = "emb_strs" ->
            IF t # "strs" THEN {NotMine(v, store)}
            ELSE IF v = Nil \/ Len(store[v]) = 0 THEN {Aborted(v, store)}
            ELSE {Changed(v, [store EXCEPT ![v][Len(store[v])] = @ \o @])}
      [] kind = "emb_map" ->
            IF t # "map" THEN {NotMine(v, store)}
            ELSE IF v = Nil \/ store[v] = {} THEN {Changed(v, store)}
            ELSE {Changed(v, [store EXCEPT
                                ![v] = (@ \ {e}) \cup {[e EXCEPT !.v = @ * initialSeed]}])
                  : e \in store[v]}
      [] kind = "intSliceChanger" ->
            IF t # "ints" THEN {NotMine(v, store)} ELSE {MultLast(v, store, 2)}
      [] kind = "firstElemChanger" ->
            IF t # "ints" THEN {NotMine(v, store)}
            ELSE IF v = Nil \/ Len(store[v]) = 0 THEN {Aborted(v, store)}
            ELSE {Changed(v, [store EXCEPT ![v][1] = @ * 2])}
      [] kind = "noopChanger" ->
            IF t # "ints" THEN {NotMine(v, store)} ELSE {Changed(v, store)}
      [] OTHER -> {NotMine(v, store)}

\* The chain EmbChangers() returns, in its order.
EmbChangers == <<"emb_int", "emb_int64", "emb_ints", "emb_int64s", "emb_strs", "emb_map">>

\* A missing field reported with the error of an unsupported field type.
NotFoundAsChange(structs, store) ==
    {[err |-> ErrSVChange, structs |-> structs, store |-> store, n |-> 0]}

\* return &ErrSVFieldNotFound{...}: no changer was called, nothing was written.
NotFound(structs, store) ==
    {[err |-> ErrSVFieldNotFound, structs |-> structs, store |-> store, n |-> 0]}

\* A field no changer claims is passed over as if it had been changed.
UnsupportedAsDone(v, store, n) == {[err |-> "nil", val |-> v, store |-> store, n |-> n]}

\* return &ErrSVChange{...}: every changer of the chain declined the field.
Unsupported(v, store, n) == {[err |-> ErrSVChange, val |-> v, store |-> store, n |-> n]}

RECURSIVE RunChangers(_, _, _, _, _)
\* for _, changer := range chain { if changer(f) { return nil } }
\* from position j on; n is the number of changers called.
RunChangers(chain, j, t, v, store) ==
    IF j > Len(chain)
    THEN Unsupported(v, store, Len(chain))
    ELSE UNION {
           IF o.panic THEN {[err |-> "panic", val |-> v, store |-> store, n |-> j]}
           ELSE IF o.claimed THEN {[err |-> "nil", val |-> o.val, store |-> o.store, n |-> j]}
           ELSE RunChangers(chain, j + 1, t, v, store)
           : o \in Changer(chain[j], t, v, store)}

----------------------------------------------------------------------------
(* The user's creator and cloner *)

\* The field the "varying" creator adds to the record type: A int.
ExtraField == [name |-> <<ChUpperB - 1>>, type |-> "int"]

\* One call of the creator, the ncalls+1-th:
\*   fresh    a new zero-valued instance on every call (func() any { return &T{} })
\*   same     the instance of the first call on every call
\*   varying  from the third call on, an instance of a type with one more
\*            exported field than the type of the first two
Creator(kind, ty, structs, ncalls) ==
    CASE kind = "same" /\ ncalls > 0 -> [structs |-> structs, inst |-> 1]
      [] kind = "varying" /\ ncalls >= 2 ->
            [structs |-> Append(structs, ZeroStruct(ty \o <<ExtraField>>)),
             inst |-> Len(structs) + 1]
      [] OTHER -> [structs |-> Append(structs, ZeroStruct(ty)), inst |-> Len(structs) + 1]

\* What a cloner does with field i: "copy" (make and copy), "share" (the
\* plain struct copy rv := *c keeps the slice header or map pointer) or
\* "nocopy" (make without copy).
FieldMode(cl, i) ==
    CASE cl.kind = "shallow" -> "share"
      [] cl.kind = "share" /\ cl.f = i -> "share"
      [] cl.kind = "nocopy" -> "nocopy"
      [] OTHER -> "copy"

\* The storage make() gives a field of type t holding contents c, before
\* anything is copied into it.
MakeLike(t, c) ==
    IF t = "map" THEN {}
    ELSE Copies(IF t = "strs" THEN <<>> ELSE 0, Len(c))

RECURSIVE CloneFields(_, _, _, _, _)
\* rv := *c, then field by field from field i on: rv.F = make(..., len(c.F))
\* and copy(rv.F, c.F), or what the cloner does instead.  r is the record
\* being built (type and vals), vals the values of the source.
CloneFields(cl, r, vals, store, i) ==
    IF i > Len(r.type) THEN [rec |-> [type |-> r.type, vals |-> vals], store |-> store]
    ELSE LET t == r.type[i].type
             m == FieldMode(cl, r.pos[i])
             c == IF vals[i] # Nil THEN store[vals[i]]
                  ELSE IF t = "map" THEN {} ELSE <<>>
         IN  IF t \notin RefTypes \/ m = "share"
             THEN CloneFields(cl, r, vals, store, i + 1)
             ELSE CloneFields(cl, r, [vals EXCEPT ![i] = Len(store) + 1],
                              Append(store, IF m = "copy" THEN c ELSE MakeLike(t, c)),
                              i + 1)

\* One call of the cloner on the record at p:
\*   identity   func(x any) any { return x }
\*   shallow    rv := *c; return &rv
\*   deep       testComplexStruct.Clone
\*   nocopy     TestCloneIncomplete
\*   share      deep, but field cl.f keeps the storage of the original
\*   othertype  a deep copy into a record of another type, which lacks the
\*              first field
\*   paste      deep, but field cl.f of the clone is filled from field
\*              cl.f - 1 of the original, a field of the same category
Cloner(cl, structs, store, p) ==
    IF cl.kind = "identity" THEN [structs |-> structs, store |-> store, clone |-> p]
    ELSE LET s == structs[p]
             n == Len(s.type)
             drop == IF cl.kind = "othertype" /\ n > 0 THEN 1 ELSE 0
             r == [type |-> SubSeq(s.type, 1 + drop, n),
                   pos |-> [i \in 1..(n - drop) |-> i + drop]]
             src == IF cl.kind = "paste" /\ cl.f \in 2..n
                    THEN [s.vals EXCEPT ![cl.f] = s.vals[cl.f - 1]] ELSE s.vals
             c == CloneFields(cl, r, SubSeq(src, 1 + drop, n), store, 1)
         IN  [structs |-> Append(structs, c.rec), store |-> c.store,
              clone |-> Len(structs) + 1]

----------------------------------------------------------------------------
(* StructVerifier *)

NewStructVerifier(creator, cloner) ==
    [creator |-> creator, cloner |-> cloner, setters |-> <<>>, changers |-> <<>>]

\* sv.setters = append(sv.setters, setters...)
AddSetters(sv, setters) == [sv EXCEPT !.setters = @ \o setters]

\* sv.changers = append(sv.changers, changers...)
AddChangers(sv, changers) == [sv EXCEPT !.changers = @ \o changers]

RECURSIVE FillFieldsSharedCounters(_, _, _, _, _, _)
\* The field loop with the variables of the built-in setters kept in one
\* place for the whole process: they go on from whatever any caller has
\* filled before.
FillFieldsSharedCounters(uSetters, structs, store, inst, i, env) ==
    LET ty == structs[inst].type IN
    IF i > Len(ty)
    THEN [ok |-> TRUE, structs |-> structs, store |-> store, env |-> env]
    ELSE IF Unexported(ty[i].name)
    THEN FillFieldsSharedCounters(uSetters, structs, store, inst, i + 1, env)
    ELSE LET r == RunSetters(uSetters \o EmbSetters, 1,
                             [env EXCEPT !.emb = [intVal |-> Len(store),
                                                  i64v |-> Len(store),
                                                  nStrs |-> initialSeed + Len(store)]],
                             ty[i].type)
         IN  IF ~r.claimed
             THEN [ok |-> FALSE, structs |-> structs, store |-> store, env |-> r.env]
             ELSE IF ty[i].type \in RefTypes
             THEN FillFieldsSharedCounters(uSetters,
                             [structs EXCEPT ![inst].vals[i] = Len(store) + 1],
                             Append(store, r.val), inst, i + 1, r.env)
             ELSE FillFieldsSharedCounters(uSetters,
                             [structs EXCEPT ![inst].vals[i] = r.val],
                             store, inst, i + 1, r.env)

RECURSIVE FillFields(_, _, _, _, _, _)
\* The field loop of autoFill from field i on.  The chain is built anew for
\* every field: append(uSetters, EmbSetters()...) calls EmbSetters() inside
\* the loop, so each field meets built-in setters with fresh variables.
FillFields(uSetters, structs, store, inst, i, env) ==
    LET ty == structs[inst].type IN
    IF i > Len(ty)
    THEN [ok |-> TRUE, structs |-> structs, store |-> store, env |-> env]
    ELSE IF Unexported(ty[i].name)
    THEN FillFields(uSetters, structs, store, inst, i + 1, env)
    ELSE LET r == RunSetters(uSetters \o EmbSetters, 1, [env EXCEPT !.emb = EmbInit],
                             ty[i].type)
         IN  IF ~r.claimed
             THEN [ok |-> FALSE, structs |-> structs, store |-> store, env |-> r.env]
             ELSE IF ty[i].type \in RefTypes
             THEN FillFields(uSetters,
                             [structs EXCEPT ![inst].vals[i] = Len(store) + 1],
                             Append(store, r.val), inst, i + 1, r.env)
             ELSE FillFields(uSetters, [structs EXCEPT ![inst].vals[i] = r.val],
                             store, inst, i + 1, r.env)

\* autoFill that drops the error of a field no setter claims.
autoFillIgnoreError(sv, ty, structs, store, ncalls, e) ==
    LET c == Creator(sv.creator, ty, structs, ncalls)
        env == [emb |-> EmbInit, u |-> [j \in 1..Len(sv.setters) |-> 0],
                ext |-> e, n |-> 0]
        r == FillFields(USetters(sv.setters), c.structs, store, c.inst, 1, env)
    IN  [ok |-> TRUE, inst |-> c.inst, structs |-> r.structs, store |-> r.store,
         ext |-> r.env.ext, n |-> r.env.n]

\* autoFill with user setters created once and kept across calls: their
\* counters go on from the earlier fills.
autoFillKeepSetters(sv, ty, structs, store, ncalls, e) ==
    LET c == Creator(sv.creator, ty, structs, ncalls)
        env == [emb |-> EmbInit, u |-> [j \in 1..Len(sv.setters) |-> ncalls],
                ext |-> e, n |-> 0]
        r == FillFields(USetters(sv.setters), c.structs, store, c.inst, 1, env)
    IN  [ok |-> r.ok, inst |-> c.inst, structs |-> r.structs, store |-> r.store,
         ext |-> r.env.ext, n |-> r.env.n]

\* autoFill: create an instance, create the user setters from their
\* factories, fill every exported field.  e is the state the test setters
\* keep outside their factory.
autoFill(sv, ty, structs, store, ncalls, e) ==
    LET c == Creator(sv.creator, ty, structs, ncalls)
        env == [emb |-> EmbInit, u |-> [j \in 1..Len(sv.setters) |-> 0],
                ext |-> e, n |-> 0]
        r == FillFields(USetters(sv.setters), c.structs, store, c.inst, 1, env)
    IN  [ok |-> r.ok, inst |-> c.inst, structs |-> r.structs, store |-> r.store,
         ext |-> r.env.ext, n |-> r.env.n]

\* The names of all the fields, the filter of autoFill left out.
structFieldsAll(ty) ==
    LET F[i \in 0..Len(ty)] ==
            IF i = 0 THEN <<>> ELSE Append(F[i - 1], ty[i].name)
    IN  F[Len(ty)]

\* The names of the exported fields, last declared first.
structFieldsReversed(ty) ==
    LET F[i \in 0..Len(ty)] ==
            IF i = 0 THEN <<>>
            ELSE IF Unexported(ty[i].name) THEN F[i - 1]
            ELSE <<ty[i].name>> \o F[i - 1]
    IN  F[Len(ty)]

\* structFields: the names of the exported fields, in declaration order.
structFields(ty) ==
    LET F[i \in 0..Len(ty)] ==
            IF i = 0 THEN <<>>
            ELSE IF Unexported(ty[i].name) THEN F[i - 1]
            ELSE Append(F[i - 1], ty[i].name)
    IN  F[Len(ty)]

\* The kind of reflect.Value a Go value si gives, with the record type where
\* there is one: a pointer to a record (what a CreatorFunc returns), a
\* record passed by value, a nil pointer to a record, a pointer to an int,
\* an int, the nil interface.
Inputs(ty) ==
    {[kind |-> "ptrStruct", type |-> ty], [kind |-> "struct", type |-> ty],
     [kind |-> "nilPtr", type |-> ty], [kind |-> "ptrInt", type |-> <<>>],
     [kind |-> "int", type |-> <<>>], [kind |-> "nil", type |-> <<>>]}

\* Elem as reflect.Indirect does it: a value that is no pointer is returned
\* as it is.
ElemOrSelf(si) ==
    CASE si.kind \in {"ptrStruct", "struct"} -> [kind |-> "struct", type |-> si.type]
      [] si.kind \in {"ptrInt", "int"} -> [kind |-> "int", type |-> <<>>]
      [] OTHER -> [kind |-> "invalid", type |-> <<>>]

\* reflect.ValueOf(si).Elem(): the value a pointer points to, the zero Value
\* for a nil pointer; Elem panics on a Value of any kind but Interface and
\* Pointer.
Elem(si) ==
    CASE si.kind = "ptrStruct" -> [kind |-> "struct", type |-> si.type]
      [] si.kind = "ptrInt" -> [kind |-> "int", type |-> <<>>]
      [] si.kind = "nilPtr" -> [kind |-> "invalid", type |-> <<>>]
      [] OTHER -> [kind |-> "panic", type |-> <<>>]

\* structFields(si) for any si: s := reflect.ValueOf(si).Elem(), then
\* s.NumField(), which panics on a Value that is no struct.
structFieldsOf(si) ==
    LET s == Elem(si)
    IN  IF s.kind = "struct"
        THEN [panic |-> FALSE, fields |-> structFields(s.type)]
        ELSE [panic |-> TRUE, fields |-> <<>>]

\* autoChange handing the changers a copy of the field's value: what they
\* set stays in the copy, only shared storage is reached.
autoChangeOnCopy(sv, structs, store, si, field) ==
    LET ty == structs[si].type
        found == {i \in 1..Len(ty) : ty[i].name = field}
    IN  IF found = {}
        THEN NotFound(structs, store)
        ELSE LET i == CHOOSE j \in found : \A k \in found : j <= k IN
             {[err |-> r.err, structs |-> structs, store |-> r.store, n |-> r.n]
              : r \in RunChangers(sv.changers \o EmbChangers, 1, ty[i].type,
                                  structs[si].vals[i], store)}

\* autoChange: find the field named field in the record at si and run the
\* changers on it.  The set of possible outcomes; n counts changer calls.
\* A changer handed an unexported field aborts in v.Interface().
autoChange(sv, structs, store, si, field) ==
    LET ty == structs[si].type
        found == {i \in 1..Len(ty) : ty[i].name = field}
    IN  IF found = {}
        THEN NotFound(structs, store)
        ELSE LET i == CHOOSE j \in found : \A k \in found : j <= k IN
             IF Unexported(field)
             THEN {[err |-> "panic", structs |-> structs, store |-> store, n |-> 1]}
             ELSE {[err |-> r.err,
                    structs |-> [structs EXCEPT ![si].vals[i] = r.val],
                    store |-> r.store, n |-> r.n]
                   : r \in RunChangers(sv.changers \o EmbChangers, 1, ty[i].type,
                                       structs[si].vals[i], store)}

----------------------------------------------------------------------------
(* State *)

VARIABLES
    sv,         \* the verifier: creator, cloner, user setter factories, user changers
    stype,      \* the record type the creator instantiates
    structs,    \* heap of record instances; a pointer is an index
    store,      \* heap of slice and map storage; Nil is the nil slice or map
    ext,        \* variables the test setters capture outside their factory
    orig, ref, clone,   \* pointers held by Verify (Nil before they are set)
    fields,     \* the field names Verify ranges over
    fi,         \* position of the loop in fields
    pc,         \* position of the call
    result,     \* what the call returned: "nil", an error case, or "panic"
    cause,      \* the error wrapped by the returned one ("" if none)
    calls,      \* how many times creator, cloner, setters, changers were called
    arg,        \* argument of a direct call: autoChange's field name, structFields' input
    chain,      \* one EmbSetters() chain used on its own: its variables, its values
    runs        \* two Verify() calls in progress at once (empty otherwise)

vars == <<sv, stype, structs, store, ext, orig, ref, clone, fields, fi, pc,
          result, cause, calls, arg, chain, runs>>

\* No chain in use.
NoChain == [emb |-> EmbInit, out |-> <<>>]

Creators == {"fresh", "same", "varying"}

Cloners(ty) ==
    {[kind |-> k, f |-> 0] : k \in {"deep", "identity", "shallow", "nocopy", "othertype"}}
    \cup {[kind |-> "share", f |-> i] : i \in {j \in 1..Len(ty) : ty[j].type \in RefTypes}}
    \cup {[kind |-> "paste", f |-> i]
             : i \in {j \in 2..Len(ty) : /\ ty[j].type = ty[j - 1].type
                                         /\ ~Unexported(ty[j].name)
                                         /\ ~Unexported(ty[j - 1].name)}}

\* The handler registrations of the tests and examples.
UserConfigs ==
    {[setters |-> <<>>, changers |-> <<>>],
     [setters |-> <<"intSliceSetter">>, changers |-> <<"intSliceChanger">>],
     [setters |-> <<"boolSetter">>, changers |-> <<>>],
     [setters |-> <<"exhaustSetter">>, changers |-> <<>>],
     [setters |-> <<"toggleSetter">>, changers |-> <<>>],
     [setters |-> <<"const10Setter">>, changers |-> <<"firstElemChanger">>],
     [setters |-> <<"const10Setter">>, changers |-> <<"noopChanger">>]}

\* "NxField", the name Test_autoChangeFieldNotFound asks for.
NxField == <<78, 120, 70, 105, 101, 108, 100>>

Init ==
    /\ stype \in StructTypes
    /\ \E cr \in Creators, uc \in UserConfigs :
         \E cl \in Cloners(stype) :
            sv = AddChangers(AddSetters(NewStructVerifier(cr, cl), uc.setters),
                             uc.changers)
    /\ structs = <<>>
    /\ store = <<>>
    /\ ext = [exhausted |-> FALSE, val |-> FALSE]
    /\ orig = Nil /\ ref = Nil /\ clone = Nil
    /\ fields = <<>>
    /\ fi = 0
    /\ pc = "start"
    /\ result = "none"
    /\ cause = ""
    /\ calls = [creator |-> 0, cloner |-> 0, setter |-> 0, changer |-> 0]
    /\ arg = <<>>
    /\ chain = NoChain
    /\ runs = <<>>

\* The error is noted and Verify goes on with the next clone.
ReturnAndGoOn(r, c) ==
    result' = r /\ cause' = c /\ pc' = IF pc = "check" THEN "clone" ELSE "done"

\* return err
Return(r, c) == result' = r /\ cause' = c /\ pc' = "done"

----------------------------------------------------------------------------
(* Verify *)

\* orig, err := sv.autoFill(); if err != nil { return &ErrSVOrigFill{...} }
AutoFillOrig ==
    /\ pc = "start"
    /\ LET r == autoFill(sv, stype, structs, store, calls.creator, ext) IN
       /\ structs' = r.structs
       /\ store' = r.store
       /\ ext' = r.ext
       /\ calls' = [calls EXCEPT !.creator = @ + 1, !.setter = @ + r.n]
       /\ IF r.ok
          THEN orig' = r.inst /\ pc' = "fillRef" /\ UNCHANGED <<result, cause>>
          ELSE Return(ErrSVOrigFill, "unsupported") /\ UNCHANGED orig
    /\ UNCHANGED <<sv, stype, ref, clone, fields, fi, arg, chain, runs>>

\* Verify reporting a failure of the second fill with the error of the first.
AutoFillRefAsOrigFill ==
    /\ pc = "fillRef"
    /\ LET r == autoFill(sv, stype, structs, store, calls.creator, ext) IN
       /\ structs' = r.structs
       /\ store' = r.store
       /\ ext' = r.ext
       /\ calls' = [calls EXCEPT !.creator = @ + 1, !.setter = @ + r.n]
       /\ IF r.ok
          THEN ref' = r.inst /\ pc' = "cmpRef" /\ UNCHANGED <<result, cause>>
          ELSE Return(ErrSVOrigFill, "unsupported") /\ UNCHANGED ref
    /\ UNCHANGED <<sv, stype, orig, clone, fields, fi, arg, chain, runs>>

\* ref, err := sv.autoFill(); if err != nil { return &ErrSVRefFill{...} }
AutoFillRef ==
    /\ pc = "fillRef"
    /\ LET r == autoFill(sv, stype, structs, store, calls.creator, ext) IN
       /\ structs' = r.structs
       /\ store' = r.store
       /\ ext' = r.ext
       /\ calls' = [calls EXCEPT !.creator = @ + 1, !.setter = @ + r.n]
       /\ IF r.ok
          THEN ref' = r.inst /\ pc' = "cmpRef" /\ UNCHANGED <<result, cause>>
          ELSE Return(ErrSVRefFill, "unsupported") /\ UNCHANGED ref
    /\ UNCHANGED <<sv, stype, orig, clone, fields, fi, arg, chain, runs>>

\* Verify without the comparison of the original with the reference.
CompareRefOrigNoCheck ==
    /\ pc = "cmpRef"
    /\ LET c == Creator(sv.creator, stype, structs, calls.creator)
           fs == structFields(c.structs[c.inst].type)
       IN  /\ structs' = c.structs
           /\ calls' = [calls EXCEPT !.creator = @ + 1]
           /\ fields' = fs
           /\ fi' = 1
           /\ IF fs = <<>>
              THEN Return("nil", "")
              ELSE pc' = "clone" /\ UNCHANGED <<result, cause>>
    /\ UNCHANGED <<sv, stype, store, ext, orig, ref, clone, arg, chain, runs>>

\* if !reflect.DeepEqual(orig, ref) { return &ErrSVRefOrigEqual{...} }
\* for _, field := range structFields(sv.creator()) { ... }; return nil
CompareRefOrig ==
    /\ pc = "cmpRef"
    /\ IF ~DeepEqual(structs, store, orig, ref)
       THEN /\ Return(ErrSVRefOrigEqual, "")
            /\ UNCHANGED <<structs, calls, fields, fi>>
       ELSE LET c == Creator(sv.creator, stype, structs, calls.creator)
                fs == structFields(c.structs[c.inst].type)
            IN  /\ structs' = c.structs
                /\ calls' = [calls EXCEPT !.creator = @ + 1]
                /\ fields' = fs
                /\ fi' = 1
                /\ IF fs = <<>>
                   THEN Return("nil", "")
                   ELSE pc' = "clone" /\ UNCHANGED <<result, cause>>
    /\ UNCHANGED <<sv, stype, store, ext, orig, ref, clone, arg, chain, runs>>

\* Verify without the comparison of the fresh clone with the original (as
\* in the first version of Verify).
CloneFieldNoCheck ==
    /\ pc = "clone"
    /\ LET c == Cloner(sv.cloner, structs, store, orig) IN
       /\ structs' = c.structs
       /\ store' = c.store
       /\ clone' = c.clone
       /\ calls' = [calls EXCEPT !.cloner = @ + 1]
       /\ pc' = "change"
    /\ UNCHANGED <<sv, stype, ext, orig, ref, fields, fi, arg, result, cause, chain, runs>>

\* The cloner given the clone of the iteration before, once there is one.
CloneFieldFromClone ==
    /\ pc = "clone"
    /\ LET c == Cloner(sv.cloner, structs, store, IF clone = Nil THEN orig ELSE clone) IN
       /\ structs' = c.structs
       /\ store' = c.store
       /\ clone' = c.clone
       /\ calls' = [calls EXCEPT !.cloner = @ + 1]
       /\ IF ~DeepEqual(c.structs, c.store, orig, c.clone)
          THEN Return(ErrSVCloneOrigNotEqual, "")
          ELSE pc' = "change" /\ UNCHANGED <<result, cause>>
    /\ UNCHANGED <<sv, stype, ext, orig, ref, fields, fi, arg, chain, runs>>

\* clone := sv.cloner(orig)
\* if !reflect.DeepEqual(orig, clone) { return &ErrSVCloneOrigNotEqual{...} }
CloneField ==
    /\ pc = "clone"
    /\ LET c == Cloner(sv.cloner, structs, store, orig) IN
       /\ structs' = c.structs
       /\ store' = c.store
       /\ clone' = c.clone
       /\ calls' = [calls EXCEPT !.cloner = @ + 1]
       /\ IF ~DeepEqual(c.structs, c.store, orig, c.clone)
          THEN Return(ErrSVCloneOrigNotEqual, "")
          ELSE pc' = "change" /\ UNCHANGED <<result, cause>>
    /\ UNCHANGED <<sv, stype, ext, orig, ref, fields, fi, arg, chain, runs>>

\* if err := sv.autoChange(clone, field); err != nil { return &ErrSVChange{...%w...} }
\* Every error of autoChange is returned as ErrSVChange; the error it wraps is
\* reachable only through the message, structVerifierError has no Unwrap.
ChangeField ==
    /\ pc = "change"
    /\ \E r \in autoChange(sv, structs, store, clone, fields[fi]) :
         /\ structs' = r.structs
         /\ store' = r.store
         /\ calls' = [calls EXCEPT !.changer = @ + r.n]
         /\ CASE r.err = "nil" -> pc' = "check" /\ UNCHANGED <<result, cause>>
              [] r.err = "panic" -> Return("panic", "")
              [] OTHER -> Return(ErrSVChange, r.err)
    /\ UNCHANGED <<sv, stype, ext, orig, ref, clone, fields, fi, arg, chain, runs>>

\* The two comparisons after the change in the other order.
CheckFieldCloneFirst ==
    /\ pc = "check"
    /\ IF DeepEqual(structs, store, orig, clone)
       THEN Return(ErrSVCloneOrigEqual, "") /\ UNCHANGED fi
       ELSE IF ~DeepEqual(structs, store, orig, ref)
       THEN Return(ErrSVOrigChanged, "") /\ UNCHANGED fi
       ELSE IF fi = Len(fields)
       THEN Return("nil", "") /\ UNCHANGED fi
       ELSE fi' = fi + 1 /\ pc' = "clone" /\ UNCHANGED <<result, cause>>
    /\ UNCHANGED <<sv, stype, structs, store, ext, orig, ref, clone, fields, calls, arg, chain, runs>>

\* Verify without the comparison of the changed clone with the original.
CheckFieldNoEqualCheck ==
    /\ pc = "check"
    /\ IF ~DeepEqual(structs, store, orig, ref)
       THEN Return(ErrSVOrigChanged, "") /\ UNCHANGED fi
       ELSE IF fi = Len(fields)
       THEN Return("nil", "") /\ UNCHANGED fi
       ELSE fi' = fi + 1 /\ pc' = "clone" /\ UNCHANGED <<result, cause>>
    /\ UNCHANGED <<sv, stype, structs, store, ext, orig, ref, clone, fields, calls, arg, chain, runs>>

\* if !reflect.DeepEqual(orig, ref) { return &ErrSVOrigChanged{...} }
\* if reflect.DeepEqual(orig, clone) { return &ErrSVCloneOrigEqual{...} }
\* and on to the next field, or return nil after the last.
CheckField ==
    /\ pc = "check"
    /\ IF ~DeepEqual(structs, store, orig, ref)
       THEN Return(ErrSVOrigChanged, "") /\ UNCHANGED fi
       ELSE IF DeepEqual(structs, store, orig, clone)
       THEN Return(ErrSVCloneOrigEqual, "") /\ UNCHANGED fi
       ELSE IF fi = Len(fields)
       THEN Return("nil", "") /\ UNCHANGED fi
       ELSE fi' = fi + 1 /\ pc' = "clone" /\ UNCHANGED <<result, cause>>
    /\ UNCHANGED <<sv, stype, structs, store, ext, orig, ref, clone, fields, calls, arg, chain, runs>>

----------------------------------------------------------------------------
(* autoChange called on its own, as Test_autoChangeFieldNotFound does *)

\* &struct{...}{} : the caller builds a zero-valued record.
NewInstance ==
    /\ pc = "start"
    /\ structs' = Append(structs, ZeroStruct(stype))
    /\ clone' = Len(structs) + 1
    /\ pc' = "direct"
    /\ UNCHANGED <<sv, stype, store, ext, orig, ref, fields, fi, result, cause, calls, arg, chain, runs>>

\* err := sv.autoChange(si, name)
AutoChangeDirect ==
    /\ pc = "direct"
    /\ \E name \in {stype[i].name : i \in 1..Len(stype)} \cup {NxField} :
         \E r \in autoChange(sv, structs, store, clone, name) :
            /\ arg' = name
            /\ structs' = r.structs
            /\ store' = r.store
            /\ calls' = [calls EXCEPT !.changer = @ + r.n]
            /\ result' = r.err
            /\ cause' = ""
            /\ pc' = "returned"
    /\ UNCHANGED <<sv, stype, ext, orig, ref, clone, fields, fi, chain, runs>>

Next ==
    \/ AutoFillOrig
    \/ AutoFillRef
    \/ CompareRefOrig
    \/ CloneField
    \/ ChangeField
    \/ CheckField
    \/ NewInstance
    \/ AutoChangeDirect

Spec == Init /\ [][Next]_vars

----------------------------------------------------------------------------
(* One chain of built-in setters used on its own *)

\* setters := EmbSetters(): the chain with its variables as created; no
\* verifier is involved.
InitChain ==
    /\ stype = <<>>
    /\ sv = NewStructVerifier("fresh", [kind |-> "deep", f |-> 0])
    /\ structs = <<>>
    /\ store = <<>>
    /\ ext = [exhausted |-> FALSE, val |-> FALSE]
    /\ orig = Nil /\ ref = Nil /\ clone = Nil
    /\ fields = <<>>
    /\ fi = 0
    /\ pc = "chain"
    /\ result = "none"
    /\ cause = ""
    /\ calls = [creator |-> 0, cloner |-> 0, setter |-> 0, changer |-> 0]
    /\ arg = <<>>
    /\ chain = NoChain
    /\ runs = <<>>

\* for _, setter := range setters { if v := setter(f); v != nil { ... } }
\* on a field of some category t: the value the chain gives is recorded.
CallEmbSetters ==
    /\ pc = "chain"
    /\ Len(chain.out) < MaxChainCalls
    /\ \E t \in ExportedTypes :
         LET r == RunSetters(EmbSetters, 1,
                             [emb |-> chain.emb, u |-> <<>>, ext |-> ext, n |-> 0], t)
         IN  chain' = [emb |-> r.env.emb,
                       out |-> IF r.claimed
                               THEN Append(chain.out, [type |-> t, val |-> r.val])
                               ELSE chain.out]
    /\ UNCHANGED <<sv, stype, structs, store, ext, orig, ref, clone, fields, fi, pc,
                   result, cause, calls, arg, runs>>

\* A record with one exported field holding the i-th value of the chain, a
\* deep copy of that record as the cloner of the example makes it, and
\* sv.autoChange(clone, field) on the copy with the built-in changers alone.
ChangeChainValue ==
    /\ pc = "chain"
    /\ \E i \in 1..Len(chain.out) :
         LET t == chain.out[i].type
             v == chain.out[i].val
             ty == <<[name |-> <<ChUpperB>>, type |-> t]>>
             st == IF t \in RefTypes THEN Append(Append(<<>>, v), v) ELSE <<>>
             o == [type |-> ty, vals |-> <<IF t \in RefTypes THEN 1 ELSE v>>]
             c == [type |-> ty, vals |-> <<IF t \in RefTypes THEN 2 ELSE v>>]
         IN  \E r \in autoChange(sv, Append(Append(<<>>, o), c), st, 2, <<ChUpperB>>) :
                /\ structs' = r.structs
                /\ store' = r.store
                /\ orig' = 1
                /\ clone' = 2
                /\ fields' = <<<<ChUpperB>>>>
                /\ fi' = i
                /\ calls' = [calls EXCEPT !.changer = @ + r.n]
                /\ result' = r.err
                /\ pc' = "changed"
    /\ UNCHANGED <<sv, stype, ext, ref, cause, arg, chain, runs>>

NextChain == CallEmbSetters \/ ChangeChainValue

SpecChain == InitChain /\ [][NextChain]_vars

----------------------------------------------------------------------------
(* structFields called on its own *)

\* A record type is chosen; no verifier is involved.
InitFields ==
    /\ stype \in StructTypes
    /\ sv = NewStructVerifier("fresh", [kind |-> "deep", f |-> 0])
    /\ structs = <<>>
    /\ store = <<>>
    /\ ext = [exhausted |-> FALSE, val |-> FALSE]
    /\ orig = Nil /\ ref = Nil /\ clone = Nil
    /\ fields = <<>>
    /\ fi = 0
    /\ pc = "fields"
    /\ result = "none"
    /\ cause = ""
    /\ calls = [creator |-> 0, cloner |-> 0, setter |-> 0, changer |-> 0]
    /\ arg = <<>>
    /\ chain = NoChain
    /\ runs = <<>>

\* fields := structFields(si); arg keeps the input.
CallStructFields ==
    /\ pc = "fields"
    /\ \E si \in Inputs(stype) :
         LET r == structFieldsOf(si) IN
         /\ arg' = si
         /\ fields' = r.fields
         /\ result' = IF r.panic THEN "panic" ELSE "nil"
         /\ pc' = "listed"
    /\ UNCHANGED <<sv, stype, structs, store, ext, orig, ref, clone, fi, cause, calls,
                   chain, runs>>

NextFields == CallStructFields

SpecFields == InitFields /\ [][NextFields]_vars

----------------------------------------------------------------------------
(* Several Verify() calls in one process *)

\* A Verify() call about to start on verifier v for record type ty; second
\* tells a call made on a verifier an earlier call has used.  recs collects
\* the records created for the call.
StartRun(v, ty, second) ==
    [sv |-> v, stype |-> ty, ext |-> [exhausted |-> FALSE, val |-> FALSE],
     orig |-> Nil, ref |-> Nil, clone |-> Nil, fields |-> <<>>, fi |-> 0,
     pc |-> "start", result |-> "none", ncreate |-> 0, recs |-> {},
     second |-> second]

\* The chain of autoChange is stored back into the verifier:
\* sv.changers = append(sv.changers, EmbChangers()...).
AfterAutoChangeStored(v) == [v EXCEPT !.changers = @ \o EmbChangers]

\* The verifier after autoChange: append(sv.changers, EmbChangers()...) is
\* only ranged over, sv.changers keeps its elements and its length.
AfterAutoChange(v) == v

\* One step of the Verify() call r on the heap (hs, st): the next states of
\* the call and of the heap.  The steps are those of Verify above.
VerifyStep(r, hs, st) ==
    CASE r.pc \in {"start", "fillRef"} ->
            LET f == autoFill(r.sv, r.stype, hs, st, r.ncreate, r.ext)
                r1 == [r EXCEPT !.ext = f.ext, !.ncreate = @ + 1,
                                !.recs = @ \cup (Len(hs) + 1)..Len(f.structs)]
            IN  {[run |-> IF ~f.ok
                          THEN [r1 EXCEPT !.pc = "done",
                                          !.result = IF r.pc = "start" THEN ErrSVOrigFill
                                                     ELSE ErrSVRefFill]
                          ELSE IF r.pc = "start"
                          THEN [r1 EXCEPT !.pc = "fillRef", !.orig = f.inst]
                          ELSE [r1 EXCEPT !.pc = "cmpRef", !.ref = f.inst],
                  structs |-> f.structs, store |-> f.store]}
      [] r.pc = "cmpRef" ->
            IF ~DeepEqual(hs, st, r.orig, r.ref)
            THEN {[run |-> [r EXCEPT !.pc = "done", !.result = ErrSVRefOrigEqual],
                   structs |-> hs, store |-> st]}
            ELSE LET c == Creator(r.sv.creator, r.stype, hs, r.ncreate)
                     fs == structFields(c.structs[c.inst].type)
                     r1 == [r EXCEPT !.ncreate = @ + 1, !.fields = fs, !.fi = 1,
                                     !.recs = @ \cup (Len(hs) + 1)..Len(c.structs)]
                 IN  {[run |-> IF fs = <<>>
                               THEN [r1 EXCEPT !.pc = "done", !.result = "nil"]
                               ELSE [r1 EXCEPT !.pc = "clone"],
                       structs |-> c.structs, store |-> st]}
      [] r.pc = "clone" ->
            LET c == Cloner(r.sv.cloner, hs, st, r.orig)
                r1 == [r EXCEPT !.clone = c.clone,
                                !.recs = @ \cup (Len(hs) + 1)..Len(c.structs)]
            IN  {[run |-> IF ~DeepEqual(c.structs, c.store, r.orig, c.clone)
                          THEN [r1 EXCEPT !.pc = "done", !.result = ErrSVCloneOrigNotEqual]
                          ELSE [r1 EXCEPT !.pc = "change"],
                  structs |-> c.structs, store |-> c.store]}
      [] r.pc = "change" ->
            {[run |-> CASE a.err = "nil" ->
                              [r EXCEPT !.pc = "check", !.sv = AfterAutoChange(@)]
                        [] a.err = "panic" ->
                              [r EXCEPT !.pc = "done", !.result = "panic"]
                        [] OTHER ->
                              [r EXCEPT !.pc = "done", !.result = ErrSVChange,
                                        !.sv = AfterAutoChange(@)],
              structs |-> a.structs, store |-> a.store]
             : a \in autoChange(r.sv, hs, st, r.clone, r.fields[r.fi])}
      [] r.pc = "check" ->
            {[run |-> IF ~DeepEqual(hs, st, r.orig, r.ref)
                      THEN [r EXCEPT !.pc = "done", !.result = ErrSVOrigChanged]
                      ELSE IF DeepEqual(hs, st, r.orig, r.clone)
                      THEN [r EXCEPT !.pc = "done", !.result = ErrSVCloneOrigEqual]
                      ELSE IF r.fi = Len(r.fields)
                      THEN [r EXCEPT !.pc = "done", !.result = "nil"]
                      ELSE [r EXCEPT !.pc = "clone", !.fi = @ + 1],
              structs |-> hs, store |-> st]}
      [] OTHER -> {}


RECURSIVE SoloResults(_, _, _)
\* What the call r returns when it runs to its end with no other call
\* between its steps: the set of its possible results.
SoloResults(r, hs, st) ==
    IF r.pc = "done" THEN {r.result}
    ELSE UNION {SoloResults(n.run, n.structs, n.store) : n \in VerifyStep(r, hs, st)}

\* The record types, cloners and handler registrations of the verifiers
\* used side by side: one field of a scalar, slice or map category, and a
\* slice field followed by a slice of strings.
PairTypes ==
    {<<[name |-> <<ChUpperB>>, type |-> t]>> : t \in {"int", "ints", "map"}}
    \cup {<<[name |-> <<ChUpperB>>, type |-> "ints"],
            [name |-> <<ChUpperB + 1>>, type |-> "strs"]>>}

PairVerifiers ==
    {[v |-> AddChangers(AddSetters(NewStructVerifier("fresh", [kind |-> k, f |-> 0]),
                                   uc.setters), uc.changers),
      ty |-> ty]
       : k \in {"deep", "shallow", "nocopy"},
         uc \in {c \in UserConfigs : c.setters = <<>> \/ c.changers = <<"noopChanger">>},
         ty \in PairTypes}

\* Two calls on two verifiers, free to interleave; or one call and, waiting
\* for it to return, a second call on the same verifier.
InitPair ==
    /\ stype = <<>>
    /\ sv = NewStructVerifier("fresh", [kind |-> "deep", f |-> 0])
    /\ structs = <<>>
    /\ store = <<>>
    /\ ext = [exhausted |-> FALSE, val |-> FALSE]
    /\ orig = Nil /\ ref = Nil /\ clone = Nil
    /\ fields = <<>>
    /\ fi = 0
    /\ pc = "pair"
    /\ result = "none"
    /\ cause = ""
    /\ calls = [creator |-> 0, cloner |-> 0, setter |-> 0, changer |-> 0]
    /\ arg = <<>>
    /\ chain = NoChain
    /\ \E a \in PairVerifiers :
         \/ \E b \in PairVerifiers :
               runs = <<StartRun(a.v, a.ty, FALSE), StartRun(b.v, b.ty, FALSE)>>
         \/ runs = <<StartRun(a.v, a.ty, FALSE),
                     [StartRun(a.v, a.ty, TRUE) EXCEPT !.pc = "wait"]>>

\* One step of one of the calls.
StepRun ==
    /\ pc = "pair"
    /\ \E p \in 1..2 : \E n \in VerifyStep(runs[p], structs, store) :
         /\ runs' = IF p = 1 THEN <<n.run, runs[2]>> ELSE <<runs[1], n.run>>
         /\ structs' = n.structs
         /\ store' = n.store
    /\ UNCHANGED <<sv, stype, ext, orig, ref, clone, fields, fi, pc,
                   result, cause, calls, arg, chain>>

\* err = sv.Verify() once more, on the verifier as the first call left it.
VerifyAgain ==
    /\ pc = "pair"
    /\ runs[1].pc = "done" /\ runs[2].pc = "wait"
    /\ runs' = <<runs[1], StartRun(runs[1].sv, runs[1].stype, TRUE)>>
    /\ UNCHANGED <<sv, stype, structs, store, ext, orig, ref, clone, fields, fi, pc,
                   result, cause, calls, arg, chain>>

NextPair == StepRun \/ VerifyAgain

SpecPair == InitPair /\ [][NextPair]_vars

----------------------------------------------------------------------------
(* Vocabulary of the claims *)

FieldNames(ty) == {ty[i].name : i \in 1..Len(ty)}

\* The categories of the exported fields of record type ty.
ExportedFieldTypes(ty) ==
    {ty[i].type : i \in {j \in 1..Len(ty) : ~Unexported(ty[j].name)}}

\* Some setter of the verifier's chain, freshly created, claims category t.
SetterClaims(t) ==
    RunSetters(USetters(sv.setters) \o EmbSetters, 1,
               [emb |-> EmbInit, u |-> [j \in 1..Len(sv.setters) |-> 0],
                ext |-> [exhausted |-> FALSE, val |-> FALSE], n |-> 0],
               t).claimed

\* Some changer of the verifier's chain claims category t.
ChangerClaims(t) ==
    \E j \in 1..Len(sv.changers \o EmbChangers) :
       Changer((sv.changers \o EmbChangers)[j], t, ZeroValue(t), <<>>)
          # {NotMine(ZeroValue(t), <<>>)}

\* Every exported field belongs to a category a setter and a changer claim.
AllExportedHandled ==
    \A t \in ExportedFieldTypes(stype) : SetterClaims(t) /\ ChangerClaims(t)

\* The user changers keep the Changer contract: one that claims a field
\* changes its data.
EffectiveChangers == \A j \in 1..Len(sv.changers) : sv.changers[j] # "noopChanger"

\* The cloner makes a new record but leaves an exported slice or map field on
\* the storage of the original.
SharesRefField ==
    \/ /\ sv.cloner.kind = "shallow"
       /\ ExportedFieldTypes(stype) \cap RefTypes # {}
    \/ /\ sv.cloner.kind = "share"
       /\ sv.cloner.f \in 1..Len(stype)
       /\ stype[sv.cloner.f].type \in RefTypes
       /\ ~Unexported(stype[sv.cloner.f].name)

\* Verify has returned.
Returned == pc = "done"

----------------------------------------------------------------------------
(* Claims *)

\* C1: with a creator that returns a new record on every call, handlers that
\* claim the category of every exported field and changers that change what
\* they claim, Verify returns nil when the cloner deep-copies the record
\* (equal fields, slices and maps on storage of their own).
C1_DeepCopyVerifies ==
    (Returned /\ sv.creator = "fresh" /\ sv.cloner.kind = "deep"
       /\ AllExportedHandled /\ EffectiveChangers)
    => result = "nil"

\* C1 witness: a successful run over a record with two exported fields, one
\* of them a slice or a map, in which changers were called.
C1_Witness ==
    /\ Returned /\ result = "nil"
    /\ sv.creator = "fresh" /\ sv.cloner.kind = "deep"
    /\ Len(fields) = 2 /\ ExportedFieldTypes(stype) \cap RefTypes # {}
    /\ calls.cloner = 2 /\ calls.changer > 0

\* C2: under the same conditions on creator and handlers, a cloner that
\* copies the record but leaves an exported slice or map field on the
\* storage of the original makes Verify return OrigChanged.
C2_SharedStorageDetected ==
    (Returned /\ sv.creator = "fresh" /\ SharesRefField
       /\ AllExportedHandled /\ EffectiveChangers)
    => result = ErrSVOrigChanged

\* C2 witness: the shared field is the second one, the first passed.
C2_Witness ==
    /\ Returned /\ result = ErrSVOrigChanged
    /\ sv.creator = "fresh" /\ sv.cloner.kind = "share" /\ sv.cloner.f = 2
    /\ fi = 2 /\ AllExportedHandled /\ EffectiveChangers

\* C3 as stated: with the identity cloner and every exported field claimed
\* by a setter and a changer, Verify returns OrigChanged or CloneOrigEqual,
\* never nil and never another error.
C3_IdentityAlwaysFails ==
    (Returned /\ sv.cloner.kind = "identity" /\ AllExportedHandled)
    => result \in {ErrSVOrigChanged, ErrSVCloneOrigEqual}

\* C3 amended: the same, for a record type with at least one exported field,
\* when both fills succeeded and agreed and no changer aborted.
C3_IdentityFailsOnExportedField ==
    (Returned /\ sv.cloner.kind = "identity" /\ AllExportedHandled
       /\ structFields(stype) # <<>>
       /\ result \notin {ErrSVOrigFill, ErrSVRefFill, ErrSVRefOrigEqual, "panic"})
    => result \in {ErrSVOrigChanged, ErrSVCloneOrigEqual}

\* C3 witness: the identity cloner with a changer that changes nothing is
\* reported as CloneOrigEqual.
C3_Witness ==
    /\ Returned /\ sv.cloner.kind = "identity" /\ sv.creator = "fresh"
    /\ AllExportedHandled /\ structFields(stype) # <<>>
    /\ result = ErrSVCloneOrigEqual /\ calls.changer > 0

\* C4: when the record the cloner returns is not deep-equal to the original,
\* Verify returns CloneOrigNotEqual at once, no changer having been called on
\* that clone; in particular a cloner that allocates slices and maps but
\* copies nothing into them is rejected before any changer runs.
C4_IncompleteCloneRejected ==
    /\ [](Returned /\ sv.creator = "fresh" /\ sv.cloner.kind = "nocopy"
            /\ AllExportedHandled /\ ExportedFieldTypes(stype) \cap RefTypes # {}
          => result = ErrSVCloneOrigNotEqual /\ calls.changer = 0)
    /\ [][(pc = "clone" /\ ~DeepEqual(structs', store', orig', clone'))
          => (pc' = "done" /\ result' = ErrSVCloneOrigNotEqual
              /\ calls'.changer = calls.changer)]_vars

\* C4 witness: the first clone of a make-without-copy cloner is rejected.
C4_Witness ==
    /\ Returned /\ result = ErrSVCloneOrigNotEqual
    /\ sv.cloner.kind = "nocopy" /\ calls.cloner = 1 /\ calls.changer = 0

\* C5: when some exported field has a category no setter claims, Verify
\* returns OrigFill and calls neither the cloner nor a changer.
C5_UnsupportedFieldOrigFill ==
    (Returned /\ \E t \in ExportedFieldTypes(stype) : ~SetterClaims(t))
    => (result = ErrSVOrigFill /\ calls.cloner = 0 /\ calls.changer = 0)

\* C5 witness: a run that asked setters and ended with OrigFill.
C5_Witness ==
    /\ Returned /\ result = ErrSVOrigFill
    /\ \E t \in ExportedFieldTypes(stype) : ~SetterClaims(t)
    /\ calls.setter > 0 /\ calls.cloner = 0

\* C6: when Verify changes a field of the clone whose category no user
\* changer and no built-in changer claims, it returns a Change error.
C6_UnclaimedFieldChange ==
    [][(pc = "change"
          /\ \E i \in 1..Len(structs[clone].type) :
                /\ structs[clone].type[i].name = fields[fi]
                /\ ~ChangerClaims(structs[clone].type[i].type))
       => (pc' = "done" /\ result' = ErrSVChange)]_vars

\* C6 witness: every changer of the chain was asked and Verify returned Change.
C6_Witness ==
    /\ Returned /\ result = ErrSVChange /\ cause = ErrSVChange
    /\ calls.changer = Len(sv.changers) + Len(EmbChangers)

\* C7: autoChange called with a name that is no field of the record returns
\* FieldNotFound, calls no changer and leaves the record as it was.
C7_DirectFieldNotFound ==
    (pc = "returned" /\ arg \notin FieldNames(structs[clone].type))
    => (result = ErrSVFieldNotFound /\ calls.changer = 0
        /\ structs[clone] = ZeroStruct(stype) /\ store = <<>>)

\* C7 witness: the call of Test_autoChangeFieldNotFound on a record with fields.
C7_Witness ==
    /\ pc = "returned" /\ arg = NxField /\ Len(stype) > 0
    /\ result = ErrSVFieldNotFound

\* C8: when Verify changes a field of the clone and the name, taken from the
\* creator's record type, is the name of no field of the clone's type, the
\* error Verify returns is the FieldNotFound case.
C8_VerifyFieldNotFound ==
    [][(pc = "change" /\ fields[fi] \notin FieldNames(structs[clone].type))
       => (pc' = "done" /\ result' = ErrSVFieldNotFound)]_vars

\* C9: when the first autoFill succeeded and the second met a field no
\* setter claims, Verify returns RefFill (not OrigFill) and stops there.
C9_SecondFillRefFill ==
    (Returned /\ orig # Nil /\ ref = Nil)
    => (result = ErrSVRefFill /\ calls.cloner = 0)

\* C9 witness: the setter of TestRerFillFail, exhausted by the first fill.
C9_Witness ==
    /\ Returned /\ orig # Nil /\ ref = Nil /\ result = ErrSVRefFill
    /\ ext.exhausted /\ calls.creator = 2

\* C10: when both fills succeeded and the original is not deep-equal to the
\* reference, Verify returns RefOrigEqual without calling the cloner; a
\* setter that alternates its value across fills (TestOrigRefEqualFail) on a
\* record with one exported bool field is such a case.
C10_FillsDifferRefOrigEqual ==
    /\ [](Returned /\ sv.creator = "fresh" /\ sv.setters = <<"toggleSetter">>
            /\ ExportedFieldTypes(stype) = {"bool"} /\ Len(structFields(stype)) = 1
          => result = ErrSVRefOrigEqual /\ calls.cloner = 0)
    /\ [][(pc = "cmpRef" /\ ~DeepEqual(structs, store, orig, ref))
          => (pc' = "done" /\ result' = ErrSVRefOrigEqual /\ calls'.cloner = 0)]_vars

\* C10 witness: a run that ended with RefOrigEqual before any clone was made.
C10_Witness ==
    /\ Returned /\ result = ErrSVRefOrigEqual
    /\ orig # Nil /\ ref # Nil /\ calls.cloner = 0 /\ clone = Nil

\* C11: when a changer has claimed the field but the clone still equals the
\* original, and the original still equals the reference, Verify returns
\* CloneOrigEqual; so does every run with a correct cloner and a user changer
\* that claims []int fields and changes nothing (TestCloneOrigEqualFail).
C11_NoEffectCloneOrigEqual ==
    /\ [](Returned /\ sv.creator = "fresh" /\ sv.cloner.kind = "deep"
            /\ sv.changers = <<"noopChanger">> /\ AllExportedHandled
            /\ "ints" \in ExportedFieldTypes(stype)
          => result = ErrSVCloneOrigEqual)
    /\ [][(pc = "check" /\ DeepEqual(structs, store, orig, ref)
             /\ DeepEqual(structs, store, orig, clone))
          => (pc' = "done" /\ result' = ErrSVCloneOrigEqual)]_vars

\* C11 witness: a correct cloner, a first field changed properly, a second
\* field claimed by the changer that changes nothing.
C11_Witness ==
    /\ Returned /\ result = ErrSVCloneOrigEqual
    /\ sv.creator = "fresh" /\ sv.cloner.kind = "deep"
    /\ sv.changers = <<"noopChanger">> /\ fi = 2 /\ calls.changer > 1

\* The user setters keep their state in variables their factory creates,
\* none in a variable shared by the chains of different factory calls.
FactoryLocalSetters ==
    \A j \in 1..Len(sv.setters) : sv.setters[j] \notin {"exhaustSetter", "toggleSetter"}

\* C12 as stated: two autoFill calls that both succeed, each with a setter
\* chain newly built from the same factories, give deep-equal records.
C12_FillsAlwaysEqual ==
    pc = "cmpRef" => DeepEqual(structs, store, orig, ref)

\* C12 amended: the same, when every setter keeps its state in variables
\* created by its factory call.
C12_FreshChainsFillEqual ==
    (pc = "cmpRef" /\ FactoryLocalSetters) => DeepEqual(structs, store, orig, ref)

\* C12 witness: two distinct records with two []int fields filled by the
\* counting user setter, equal field by field.
C12_Witness ==
    /\ pc = "cmpRef" /\ orig # ref /\ sv.setters = <<"intSliceSetter">>
    /\ Len(store) = 4 /\ store[1] # store[2]
    /\ DeepEqual(structs, store, orig, ref)

\* C13: the values one chain of built-in setters has produced for fields of
\* the same category are pairwise different (as reflect.DeepEqual compares
\* them), whatever categories were filled in between.
C13_ChainValuesDistinct ==
    \A i, j \in 1..Len(chain.out) :
       (i # j /\ chain.out[i].type = chain.out[j].type)
       => chain.out[i].val # chain.out[j].val

\* C13 witness: two []int values of one chain with an int value, which
\* moves the counter they share, produced between them.
C13_Witness ==
    /\ pc = "chain" /\ Len(chain.out) = 4
    /\ chain.out[1].type = "ints" /\ chain.out[2].type = "int"
    /\ chain.out[3].type = "ints" /\ chain.out[4].type = "ints"

\* C14: for a record with two exported fields of the same category filled by
\* the built-in setters, a cloner that fills the second field of the clone
\* from the first field of the original is rejected with CloneOrigNotEqual.
C14_PasteMistakeRejected ==
    (Returned /\ sv.creator = "fresh" /\ sv.cloner.kind = "paste"
       /\ sv.setters = <<>> /\ sv.changers = <<>> /\ AllExportedHandled)
    => result = ErrSVCloneOrigNotEqual

\* Position, in the chain of user setters followed by built-in setters, of
\* the first setter that claims category t (0 if none does).
FirstSetter(t) ==
    LET ch == USetters(sv.setters) \o EmbSetters
        env == [emb |-> EmbInit, u |-> [j \in 1..Len(sv.setters) |-> 0],
                ext |-> [exhausted |-> FALSE, val |-> FALSE], n |-> 0]
        S == {j \in 1..Len(ch) : Setter(ch[j].kind, ch[j].idx, env, t).claimed}
    IN  IF S = {} THEN 0 ELSE CHOOSE j \in S : \A k \in S : j <= k

\* Position, in the chain of user changers followed by built-in changers, of
\* the first changer that claims category t (0 if none does).
FirstChanger(t) ==
    LET ch == sv.changers \o EmbChangers
        S == {j \in 1..Len(ch) :
                Changer(ch[j], t, ZeroValue(t), <<>>) # {NotMine(ZeroValue(t), <<>>)}}
    IN  IF S = {} THEN 0 ELSE CHOOSE j \in S : \A k \in S : j <= k

RECURSIVE SetterCallsToFill(_, _)
\* Setter calls needed to fill the first n fields of ty when, for each
\* exported field, the setters are asked in chain order up to the first
\* that claims it and none after.
SetterCallsToFill(ty, n) ==
    IF n = 0 THEN 0
    ELSE SetterCallsToFill(ty, n - 1)
         + (IF Unexported(ty[n].name) THEN 0 ELSE FirstSetter(ty[n].type))

\* The category of the field Verify is processing, in the clone.
CurrentFieldType ==
    LET ty == structs[clone].type
    IN  ty[CHOOSE i \in 1..Len(ty) : ty[i].name = fields[fi]].type

\* C15: handlers are asked user-first then built-in, each list in its order,
\* and the first that claims the field ends the search.  After a successful
\* fill the setters were called, per exported field, up to the first claiming
\* one and no further, and a []int field holds the value of the user setter
\* that claims []int, not the built-in one; a successful change called the
\* changers up to the first claiming one, and a user changer that claims
\* []int and changes nothing leaves the storage as it was.
C15_UserHandlersFirst ==
    /\ [](pc = "fillRef" /\ sv.creator = "fresh" /\ FactoryLocalSetters
          => /\ calls.setter = SetterCallsToFill(stype, Len(stype))
             /\ sv.setters = <<"const10Setter">>
                => \A i \in 1..Len(stype) :
                      (stype[i].type = "ints" /\ ~Unexported(stype[i].name))
                      => store[structs[orig].vals[i]] = <<10>>)
    /\ [][(pc = "change" /\ pc' = "check")
          => /\ calls'.changer = calls.changer + FirstChanger(CurrentFieldType)
             /\ (sv.changers = <<"noopChanger">> /\ CurrentFieldType = "ints")
                => store' = store]_vars

\* C15 witness: a []int field filled by the user setter and claimed by the
\* user changer, one changer call made for it.
C15_Witness ==
    /\ pc = "check" /\ fi = 1 /\ calls.changer = 1 /\ calls.setter = 2
    /\ sv.setters = <<"const10Setter">> /\ sv.changers = <<"noopChanger">>
    /\ store[structs[clone].vals[1]] = <<10>>

\* A field name that begins with an underscore or a lowercase letter a-z.
HiddenName(name) == name[1] = ChUnderscore \/ name[1] \in ChLowerA..ChLowerZ

\* The positions of the fields of ty with such a name.
HiddenFields(ty) == {i \in 1..Len(ty) : HiddenName(ty[i].name)}

\* C16: fields whose name begins with an underscore or a lowercase letter
\* take no part in a run: in every record they keep their zero value, no
\* setter is asked about them (a record with only such fields is filled with
\* no setter call), structFields lists none of them, Verify changes none of
\* them, and a record that has such fields, of categories no handler knows,
\* verifies with nil when its exported fields are handled and deep-copied.
C16_HiddenFieldsSkipped ==
    /\ \A p \in 1..Len(structs) : \A i \in HiddenFields(structs[p].type) :
          structs[p].vals[i] = ZeroValue(structs[p].type[i].type)
    /\ \A k \in 1..Len(fields) : ~HiddenName(fields[k])
    /\ calls.setter <= calls.creator * (Len(stype) - Cardinality(HiddenFields(stype)))
                         * (Len(sv.setters) + Len(EmbSetters))
    /\ (pc \in {"change", "check"}) => ~HiddenName(fields[fi])
    /\ (Returned /\ sv.creator = "fresh" /\ sv.cloner.kind = "deep"
          /\ HiddenFields(stype) # {} /\ AllExportedHandled /\ EffectiveChangers)
       => result = "nil"

\* C16 witness: a successful run over a record with an unexported bool field
\* declared before an exported slice or map field.
C16_Witness ==
    /\ Returned /\ result = "nil" /\ sv.cloner.kind = "deep" /\ sv.creator = "fresh"
    /\ Len(stype) = 2 /\ HiddenFields(stype) = {1} /\ stype[1].type = "bool"
    /\ stype[2].type \in RefTypes /\ calls.changer > 0

\* C17: Verify reports one result per run.  Once a result is set the call
\* has returned, and from then on the result stays, no creator, cloner,
\* setter or changer is called, no record or storage is written and the
\* field loop does not advance.
C17_FirstErrorEndsRun ==
    /\ [](result # "none" => pc \in {"done", "returned"})
    /\ [][result # "none"
          => UNCHANGED <<result, cause, calls, fi, structs, store>>]_vars

\* C17 witness: Verify returned an error at the first of two fields, after
\* one clone.
C17_Witness ==
    /\ Returned /\ result = ErrSVOrigChanged
    /\ fi = 1 /\ Len(fields) = 2 /\ calls.cloner = 1

\* The field name the error Verify returned carries: Change, OrigChanged and
\* CloneOrigEqual are built with the field being processed, the other cases
\* with none (<<>>).
ErrorField ==
    IF result \in {ErrSVChange, ErrSVOrigChanged, ErrSVCloneOrigEqual}
    THEN fields[fi] ELSE <<>>

\* The exported fields the cloner gets wrong: those it leaves on the
\* original's storage, or allocates without copying; every exported field
\* for the identity cloner.
Mishandled ==
    {i \in 1..Len(stype) :
       /\ ~Unexported(stype[i].name)
       /\ \/ sv.cloner.kind = "identity"
          \/ /\ stype[i].type \in RefTypes
             /\ FieldMode(sv.cloner, i) \in {"share", "nocopy"}}

\* Those among them that the clone shares with the original.
Shared == {i \in Mishandled : FieldMode(sv.cloner, i) # "nocopy"}

\* Position of the field named name in the list Verify ranges over.
FieldIndex(name) == CHOOSE k \in 1..Len(fields) : fields[k] = name

\* C18 as stated: when the cloner mishandles fields, the error Verify
\* returns names the first mishandled field in declaration order, the fields
\* before it having passed every check.
C18_ErrorNamesFirstMishandled ==
    (Returned /\ sv.creator = "fresh" /\ AllExportedHandled /\ EffectiveChangers
       /\ Mishandled # {})
    => LET first == CHOOSE i \in Mishandled : \A k \in Mishandled : i <= k
       IN  ErrorField = stype[first].name

\* C18 amended: when the cloner leaves fields sharing storage with the
\* original, Verify returns OrigChanged or CloneOrigEqual naming the first
\* such field in declaration order, after exactly the fields declared
\* before it have been cloned, changed and checked.
C18_ErrorNamesFirstShared ==
    (Returned /\ sv.creator = "fresh" /\ AllExportedHandled /\ EffectiveChangers
       /\ sv.cloner.kind \in {"identity", "shallow", "share"} /\ Shared # {})
    => LET first == CHOOSE i \in Shared : \A k \in Shared : i <= k
       IN  /\ result \in {ErrSVOrigChanged, ErrSVCloneOrigEqual}
           /\ ErrorField = stype[first].name
           /\ fi = FieldIndex(stype[first].name)
           /\ calls.cloner = fi

\* C18 witness: a plain struct copy of a record with an int field declared
\* before a slice or map field: the int field passed, the error names the
\* second field.
C18_Witness ==
    /\ Returned /\ result = ErrSVOrigChanged /\ sv.cloner.kind = "shallow"
    /\ sv.creator = "fresh" /\ Len(stype) = 2 /\ stype[1].type = "int"
    /\ Shared = {2} /\ ErrorField = stype[2].name /\ calls.cloner = 2

\* The storage the records of the set R refer to.
StorageOf(R) ==
    UNION {{structs[q].vals[j] :
              j \in {k \in 1..Len(structs[q].type) :
                       structs[q].type[k].type \in RefTypes}} : q \in R} \ {Nil}

\* C19: two Verify() calls on two verifiers, their steps interleaved in any
\* order, each return what the same call returns when it runs alone; the
\* records each call holds are records created for it, and no record of
\* one call refers to storage a record of the other refers to.
C19_InterleavedRunsIndependent ==
    (runs # <<>> /\ ~runs[2].second)
    => /\ \A p \in 1..2 :
            /\ runs[p].pc = "done"
               => SoloResults(StartRun(runs[p].sv, runs[p].stype, FALSE), <<>>, <<>>)
                     = {runs[p].result}
            /\ {runs[p].orig, runs[p].ref, runs[p].clone} \ {Nil} \subseteq runs[p].recs
       /\ runs[1].recs \cap runs[2].recs = {}
       /\ StorageOf(runs[1].recs) \cap StorageOf(runs[2].recs) = {}

\* C19 witness: both calls have returned, one with nil and one with an
\* error, and each created a record after a record of the other.
C19_Witness ==
    /\ runs # <<>> /\ ~runs[2].second
    /\ runs[1].pc = "done" /\ runs[2].pc = "done"
    /\ runs[1].result = "nil" /\ runs[2].result = ErrSVOrigChanged
    /\ \E a \in runs[1].recs, b \in runs[2].recs : a < b
    /\ \E a \in runs[1].recs, b \in runs[2].recs : b < a
    /\ StorageOf(runs[1].recs) # {} /\ StorageOf(runs[2].recs) # {}

\* C20: no step of a Verify() call changes the verifier it runs on (creator,
\* cloner, user setter factories, user changers, their order and number),
\* and a second call on the same verifier returns what the first returned.
C20_VerifierUnchangedSameOutcome ==
    /\ [][\A p \in 1..Len(runs) :
             runs[p].pc # "wait" => runs'[p].sv = runs[p].sv]_vars
    /\ [](runs # <<>> /\ runs[2].second => runs[2].sv = runs[1].sv)
    /\ [](runs # <<>> /\ runs[2].second /\ runs[2].pc = "done"
          => runs[2].result = runs[1].result)

\* C20 witness: a second call on a verifier with user handlers has returned
\* the error of the first call.
C20_Witness ==
    /\ runs # <<>> /\ runs[2].second /\ runs[2].pc = "done" /\ runs[1].pc = "done"
    /\ runs[1].sv.changers = <<"noopChanger">>
    /\ runs[2].result = ErrSVCloneOrigEqual /\ runs[2].result = runs[1].result

\* The value of the only field of the record at p: the contents of its
\* slice or map, or the scalar itself.
FieldValue(p) ==
    IF structs[p].type[1].type \in RefTypes
    THEN store[structs[p].vals[1]] ELSE structs[p].vals[1]

\* The last element of a slice.
Last(s) == s[Len(s)]

\* C21: every value a chain of built-in setters produces is one its
\* category's built-in changer changes observably: a scalar is not zero, a
\* slice is not empty and its last element is not zero (not the empty
\* string), a map has entries and none of value zero; and after the built-in
\* changer has run on a field holding the value, the field is not deep-equal
\* to what it was, whichever map entry the changer met.
C21_BuiltinChangeObservable ==
    /\ \A i \in 1..Len(chain.out) :
          LET t == chain.out[i].type
              v == chain.out[i].val
          IN  CASE t \in {"int", "int64"} -> v # 0
                [] t \in {"ints", "int64s"} -> Len(v) > 0 /\ Last(v) # 0
                [] t = "strs" -> Len(v) > 0 /\ Last(v) # <<>>
                [] t = "map" -> v # {} /\ \A e \in v : e.v # 0
    /\ pc = "changed"
       => /\ result = "nil"
          /\ FieldValue(clone) # chain.out[fi].val
          /\ ~DeepEqual(structs, store, orig, clone)

\* C21 witness: the third value of a chain, a map, has been changed.
C21_Witness ==
    /\ pc = "changed" /\ result = "nil" /\ fi = 3
    /\ chain.out[3].type = "map" /\ chain.out[1].type = "strs"
    /\ FieldValue(clone) # FieldValue(orig)

\* C22: after a built-in changer has run on a []int, []int64 or []string
\* field, the slice has the length it had and every element but the last is
\* what it was; the last is doubled, or concatenated with itself.
C22_SliceChangerLastOnly ==
    (pc = "changed" /\ chain.out[fi].type \in {"ints", "int64s", "strs"})
    => LET before == chain.out[fi].val
           after == FieldValue(clone)
       IN  /\ Len(after) = Len(before)
           /\ \A k \in 1..(Len(before) - 1) : after[k] = before[k]
           /\ Last(after) = IF chain.out[fi].type = "strs"
                            THEN Last(before) \o Last(before)
                            ELSE Last(before) * initialSeed

\* C22 witness: the changer has run on a []int64 value of six elements, the
\* third of its chain.
C22_Witness ==
    /\ pc = "changed" /\ result = "nil" /\ fi = 3
    /\ chain.out[3].type = "int64s" /\ Len(chain.out[3].val) = 6
    /\ Last(FieldValue(clone)) # Last(chain.out[3].val)

\* C23: after a built-in changer has run on an int or int64 field of a clone
\* that is a record of its own, the field of the clone holds twice the value
\* it held and the same field of the original holds the value it was given.
C23_ScalarChangerWritesThrough ==
    (pc = "changed" /\ chain.out[fi].type \in {"int", "int64"})
    => /\ orig # clone
       /\ structs[clone].vals[1] = chain.out[fi].val * initialSeed
       /\ structs[orig].vals[1] = chain.out[fi].val

\* C23 witness: the int field of the clone went from 3 to 6, the original
\* still holds 3.
C23_Witness ==
    /\ pc = "changed" /\ result = "nil" /\ chain.out[fi].type = "int"
    /\ chain.out[fi].val = 3
    /\ structs[clone].vals[1] = 6 /\ structs[orig].vals[1] = 3

\* The exported field names of ty in declaration order, by position.
ExportedNames(ty) ==
    LET idx == {i \in 1..Len(ty) : ~HiddenName(ty[i].name)}
    IN  {<<Cardinality({j \in idx : j <= i}), ty[i].name>> : i \in idx}

\* The list fs as the set of its positions and names.
Listed(fs) == {<<k, fs[k]>> : k \in 1..Len(fs)}

\* C24 as stated: structFields returns the exported field names for a
\* record and for a pointer to a record, and fails for any other input.
C24_RecordOrPointerAccepted ==
    pc = "listed"
    => IF arg.kind \in {"struct", "ptrStruct"}
       THEN result = "nil" /\ Listed(fields) = ExportedNames(arg.type)
       ELSE result = "panic"

\* C24 amended: structFields returns the exported field names for a pointer
\* to a record; for a record passed by value, a nil pointer, and any input
\* that is no pointer to a record it fails (it panics) and returns no list.
C24_PointerToRecordAccepted ==
    pc = "listed"
    => IF arg.kind = "ptrStruct"
       THEN result = "nil" /\ Listed(fields) = ExportedNames(arg.type)
       ELSE result = "panic" /\ fields = <<>>

\* C24 witness: the names of a pointer to a record with an unexported field
\* declared before an exported one.
C24_Witness ==
    /\ pc = "listed" /\ arg.kind = "ptrStruct" /\ result = "nil"
    /\ Len(arg.type) = 2 /\ HiddenName(arg.type[1].name)
    /\ fields = <<arg.type[2].name>>

\* C25: when the creator hands out the same instance on every call, so that
\* the original is the reference, and the cloner leaves fields on the
\* original's storage (or returns the original itself), the change of the
\* first such field reaches all three records, the comparison of the
\* original with the reference passes, and Verify returns CloneOrigEqual for
\* that field: it never returns nil.
C25_ChangedTogetherCloneOrigEqual ==
    (Returned /\ sv.creator = "same" /\ AllExportedHandled /\ EffectiveChangers
       /\ Shared # {})
    => LET first == CHOOSE i \in Shared : \A k \in Shared : i <= k
       IN  /\ result = ErrSVCloneOrigEqual
           /\ ErrorField = stype[first].name
           /\ orig = ref
           /\ DeepEqual(structs, store, orig, clone)

\* C25 witness: a plain struct copy of a record with an int field and a map
\* field, the same instance serving as original and reference; the int
\* field passed, the map field was changed in all three records.
C25_Witness ==
    /\ Returned /\ result = ErrSVCloneOrigEqual /\ sv.creator = "same"
    /\ sv.cloner.kind = "shallow" /\ orig = ref /\ clone # orig
    /\ Len(stype) = 2 /\ stype[1].type = "int" /\ stype[2].type = "map" /\ fi = 2
    /\ structs[clone].vals[2] = structs[ref].vals[2]
    /\ store[structs[ref].vals[2]] # StringMap(initialSeed)

\* What the record at p of the heap (hs, st) holds, field by field: scalars
\* as they are, slices and maps by their contents, nil told from empty.
Contents(hs, st, p) ==
    [i \in 1..Len(hs[p].type) |->
       LET t == hs[p].type[i].type
           v == hs[p].vals[i]
       IN  IF t \notin RefTypes THEN [nil |-> FALSE, c |-> v]
           ELSE IF v = Nil THEN [nil |-> TRUE, c |-> IF t = "map" THEN {} ELSE <<>>]
           ELSE [nil |-> FALSE, c |-> st[v]]]

\* What the first autoFill of a run gives the original.
FirstFill ==
    LET f == autoFill(sv, stype, <<>>, <<>>, 0, [exhausted |-> FALSE, val |-> FALSE])
    IN  Contents(f.structs, f.store, f.inst)

\* C26: each time the cloner is about to be called the original is
\* deep-equal to the reference and (the creator making a new record per
\* call) holds what the first fill gave it; the cloner is called on the
\* original, which Verify never replaces; and the clone it returns, once
\* accepted, holds the first fill too, whatever earlier iterations changed.
C26_ClonerGivenUnchangedOriginal ==
    /\ [](pc = "clone" => DeepEqual(structs, store, orig, ref))
    /\ [](pc = "clone" /\ sv.creator # "same"
          => Contents(structs, store, orig) = FirstFill)
    /\ [](pc = "change" /\ sv.creator # "same"
          => Contents(structs, store, clone) = FirstFill)
    /\ [][pc = "clone"
          => LET c == Cloner(sv.cloner, structs, store, orig)
             IN  structs' = c.structs /\ store' = c.store /\ clone' = c.clone]_vars
    /\ [][orig # Nil => orig' = orig]_vars

\* C26 witness: the cloner is about to be called for the second field; the
\* clone of the first iteration is there, changed, and the original holds
\* the first fill.
C26_Witness ==
    /\ pc = "clone" /\ fi = 2 /\ sv.creator = "fresh" /\ clone # Nil
    /\ Contents(structs, store, clone) # FirstFill
    /\ Contents(structs, store, orig) = FirstFill

\* The names, in declaration order, of the fields of the record at p that
\* hold something else than the zero value of their type.
FilledNames(p) ==
    LET ty == structs[p].type
        F[i \in 0..Len(ty)] ==
            IF i = 0 THEN <<>>
            ELSE IF structs[p].vals[i] = ZeroValue(ty[i].type) THEN F[i - 1]
            ELSE Append(F[i - 1], ty[i].name)
    IN  F[Len(ty)]

\* Every setter in use gives values that differ from the zero value of the
\* field (the alternating setter of TestOrigRefEqualFail gives false).
SettersGiveNonZero == \A j \in 1..Len(sv.setters) : sv.setters[j] # "toggleSetter"

\* Verify is in its loop over the fields.
InLoop == pc \in {"clone", "change", "check"}

\* C27 as stated: the names Verify ranges over are, in the same order, the
\* fields autoFill filled in the original and in the reference, and every
\* filled field is mutated once: a run whose fills succeeded has cloned and
\* changed each of them when it returns.
C27_SameFieldsAllMutated ==
    /\ (InLoop /\ SettersGiveNonZero)
       => fields = FilledNames(orig) /\ fields = FilledNames(ref)
    /\ (Returned /\ ref # Nil /\ result # ErrSVRefOrigEqual /\ SettersGiveNonZero)
       => /\ calls.cloner = Len(FilledNames(orig))
          /\ result \notin {ErrSVCloneOrigNotEqual, ErrSVChange, "panic"}

\* C27 amended: for a creator that returns records of one type, the names
\* Verify ranges over are, in the same order, the fields autoFill filled in
\* the original and in the reference; the loop takes them one by one in
\* that order, a change touches the field named and no other field of the
\* clone, and a run that returns nil has cloned and changed every filled
\* field once.
C27_SameFieldsMutatedInPassingRun ==
    /\ [](InLoop /\ SettersGiveNonZero /\ sv.creator # "varying"
          => fields = FilledNames(orig) /\ fields = FilledNames(ref))
    /\ [](Returned /\ result = "nil" /\ ref # Nil /\ SettersGiveNonZero
            /\ sv.creator # "varying"
          => /\ calls.cloner = Len(FilledNames(orig))
             /\ fields # <<>> => fi = Len(fields))
    /\ [][(pc = "check" /\ pc' = "clone") => fi' = fi + 1]_vars
    /\ [][(pc = "change" /\ pc' = "check")
          => \A i \in 1..Len(structs[clone].type) :
                structs[clone].type[i].name # fields[fi]
                => Contents(structs', store', clone)[i]
                      = Contents(structs, store, clone)[i]]_vars

\* C27 witness: a passing run over a record with two exported fields; both
\* were filled, cloned and changed, in their order.
C27_Witness ==
    /\ Returned /\ result = "nil" /\ sv.creator = "fresh" /\ Len(stype) = 2
    /\ fields = <<stype[1].name, stype[2].name>> /\ fields = FilledNames(orig)
    /\ fi = 2 /\ calls.cloner = 2 /\ calls.changer >= 2

\* C28: when no field of the record type is exported (the creator returning
\* that type on every call), a Verify() run calls no setter, no cloner and no
\* changer, and returns nil, whichever cloner the verifier has.
C28_NoExportedFieldNil ==
    (HiddenFields(stype) = 1..Len(stype) /\ sv.creator # "varying"
       /\ pc \notin {"direct", "returned"})
    => /\ calls.setter = 0 /\ calls.cloner = 0 /\ calls.changer = 0
       /\ clone = Nil
       /\ Returned => (result = "nil" /\ calls.creator = 3)

\* C28 witness: a run over a record with two unexported fields and a cloner
\* that returns a record of another type has returned nil.
C28_Witness ==
    /\ Returned /\ result = "nil" /\ Len(stype) = 2 /\ HiddenFields(stype) = {1, 2}
    /\ sv.cloner.kind = "othertype" /\ sv.creator = "fresh"
    /\ calls.creator = 3 /\ calls.cloner = 0

BuiltinOnly == sv.setters = <<>> /\ sv.changers = <<>>

\* The value the built-in setters give a field of category t when the
\* chain has been called k times for each of its counters.
EmbValue(t, k) ==
    RunSetters(EmbSetters, 1,
               [emb |-> [intVal |-> EmbInit.intVal + k, i64v |-> EmbInit.i64v + k,
                         nStrs |-> EmbInit.nStrs + k],
                u |-> <<>>, ext |-> [exhausted |-> FALSE, val |-> FALSE], n |-> 0],
               t)

\* C30: whatever the chain has produced before, a slice from a built-in
\* setter has at least two elements and a map at least two entries, under
\* distinct keys, with integer values; and in a run with built-in handlers
\* only, the field Verify changes holds such a value, no changer aborts, and
\* a change that is reported as done has changed the clone.
C30_BuiltinChangersNeverFail ==
    /\ [](\A k \in 0..MaxChainCalls :
            /\ \A t \in {"ints", "int64s", "strs"} :
                  EmbValue(t, k).claimed /\ Len(EmbValue(t, k).val) >= 2
            /\ LET m == EmbValue("map", k).val
               IN  /\ Cardinality({e.k : e \in m}) >= 2
                   /\ Cardinality({e.k : e \in m}) = Cardinality(m)
                   /\ \A e \in m : e.v \in Int)
    /\ [](BuiltinOnly /\ pc = "change" /\ sv.creator # "varying"
             /\ CurrentFieldType \in RefTypes
          => LET ty == structs[clone].type
                 i == CHOOSE j \in 1..Len(ty) : ty[j].name = fields[fi]
                 c == Contents(structs, store, clone)[i].c
             IN  IF CurrentFieldType = "map" THEN Cardinality(c) >= 2 ELSE Len(c) >= 2)
    /\ [][(BuiltinOnly /\ pc = "change")
          => /\ result' # "panic"
             /\ pc' = "check"
                => Contents(structs', store', clone) # Contents(structs, store, clone)
             /\ pc' = "done" => cause' = ErrSVFieldNotFound]_vars

\* C30 witness: in a run with built-in handlers only, the map field of the
\* clone, filled with two entries, has been changed.
C30_Witness ==
    /\ pc = "check" /\ BuiltinOnly /\ sv.creator = "fresh" /\ fi = 2
    /\ CurrentFieldType = "map"
    /\ Cardinality(store[structs[orig].vals[2]]) = 2
    /\ Contents(structs, store, clone)[2] # Contents(structs, store, orig)[2]

====
